---- MODULE Spec2Model ----
(***************************************************************************)
(* Model of the environmental-impact computation of src/app.py: the three  *)
(* footprint calculators, the percentile classifier, the display           *)
(* formatters and the per-county table the script rebuilds on every rerun. *)
(*                                                                         *)
(* Python values are modelled as pairs <<kind, payload>>:                  *)
(*   <<"num", n>>  a finite number (integers stand for the floats)         *)
(*   <<"nan", 0>>  NaN, the missing cell of a pandas column                *)
(*   <<"inf", s>>  +infinity (s = 1) or -infinity (s = -1)                 *)
(*   <<"str", k>>  a string: k = 0 is 'N/A', k = 1 a non-numeric text      *)
(* A call that may raise yields <<"ok", value>> or <<"exc", name>>.        *)
(***************************************************************************)
EXTENDS Integers, Sequences, FiniteSets, TLC

VARIABLES
    \* the two number inputs and the unit tags selected for them
    onsite_power, power_units, onsite_water, water_units,
    \* the normalised user inputs (kWh/year, L/year) of the current run
    onsite_power_kwh_per_year, onsite_water_l_per_year,
    \* one county's factors and the three footprints computed from them
    factors, footprints,
    \* a metric column, its colours, and the last change made to it
    column, color_category, last_change,
    \* a value handed to the formatters and the strings they returned
    fmt_value, fmt_out,
    \* the script's tables: the county ids of the GeoJSON, the reference
    \* table, the loaded factor table; the selected metric; and what one
    \* run of the script produces
    all_fips, data, emission_data, impact_metric, plot_df, statistics, map_error

widgetVars == <<onsite_power, power_units, onsite_water, water_units>>
inputVars == <<onsite_power_kwh_per_year, onsite_water_l_per_year>>
calcVars == <<factors, footprints>>
pctVars == <<column, color_category, last_change>>
fmtVars == <<fmt_value, fmt_out>>
tableVars == <<all_fips, data, emission_data>>
runVars == <<impact_metric, plot_df, statistics, map_error>>
vars == <<widgetVars, inputVars, calcVars, pctVars, fmtVars, tableVars, runVars>>

---------------------------------------------------------------------------
\* Bounds of the model.

\* largest numeric factor (EF, EWIF, ACF, SWI) drawn
MaxFactor == 2
\* largest normalised on-site power drawn, kWh/year
MaxPower == 2
\* largest normalised on-site water drawn, L/year
MaxWater == 2
\* longest metric column handed to the classifier on its own
MaxColumn == 4
\* largest metric value in such a column
MaxValue == 2
\* largest magnitude handed to the formatters
MaxFormatValue == 1100
\* number of counties of the GeoJSON
NumCounties == 2
\* largest normalised power and water entered while the table is shown
MaxInput == 1
\* most rows of a sheet whose rows are not one per county
MaxSheetRows == 2
\* largest on-site power typed into the number input, in the selected unit
MaxPowerAmount == 12
\* largest on-site water typed into the number input, in the selected unit
MaxWaterAmount == 3

---------------------------------------------------------------------------
\* The unit converters. A number typed into a number input, and a number
\* the converters return, is an exact fraction <<numerator, denominator>> in
\* lowest terms; the float literal 3.78541 is the fraction 378541/100000.

RECURSIVE GCD(_, _)
GCD(a, b) == IF b = 0 THEN a ELSE GCD(b, a % b)

\* the whole number n
Whole(n) == <<n, 1>>

\* the fraction n/d in lowest terms
Fraction(n, d) == <<n \div GCD(n, d), d \div GCD(n, d)>>

\* x * y of two fractions in lowest terms, cancelled before it is multiplied
Mul(x, y) ==
    <<(x[1] \div GCD(x[1], y[2])) * (y[1] \div GCD(y[1], x[2])),
      (x[2] \div GCD(y[1], x[2])) * (y[2] \div GCD(x[1], y[2]))>>

\* the literal 3.78541, litres per gallon
LitersPerGallon == Fraction(378541, 100000)

\* mutant: a month's energy returned as it is, not multiplied by 12
convert_to_kwh_per_year_monthly_as_annual(power_value, units) ==
    IF units = "kWh/yr" \/ units = "kWh/mo" THEN power_value
    ELSE IF units = "kW" THEN Mul(power_value, Whole(8760))
    ELSE IF units = "MW" THEN Mul(Mul(power_value, Whole(1000)), Whole(8760))
    ELSE Whole(0)

convert_to_kwh_per_year(power_value, units) ==
    IF units = "kWh/yr" THEN power_value
    ELSE IF units = "kWh/mo" THEN Mul(power_value, Whole(12))
    ELSE IF units = "kW" THEN Mul(power_value, Whole(8760))
    ELSE IF units = "MW" THEN Mul(Mul(power_value, Whole(1000)), Whole(8760))
    ELSE Whole(0)

\* mutant: the gallon rounded to 3.785 litres
convert_to_liters_per_year_short_gallon(water_value, units) ==
    IF units = "L/yr" THEN water_value
    ELSE IF units = "L/mo" THEN Mul(water_value, Whole(12))
    ELSE IF units = "L/s" THEN Mul(water_value, Whole(31557600))
    ELSE IF units = "gpm"
         THEN Mul(Mul(water_value, Whole(525600)), Fraction(3785, 1000))
    ELSE IF units = "gal/mo"
         THEN Mul(Mul(water_value, Whole(12)), Fraction(3785, 1000))
    ELSE Whole(0)

convert_to_liters_per_year(water_value, units) ==
    IF units = "L/yr" THEN water_value
    ELSE IF units = "L/mo" THEN Mul(water_value, Whole(12))
    ELSE IF units = "L/s" THEN Mul(water_value, Whole(31557600))
    ELSE IF units = "gpm" THEN Mul(Mul(water_value, Whole(525600)), LitersPerGallon)
    ELSE IF units = "gal/mo" THEN Mul(Mul(water_value, Whole(12)), LitersPerGallon)
    ELSE Whole(0)

---------------------------------------------------------------------------
\* Python values.

Num(n) == <<"num", n>>
NaN == <<"nan", 0>>
PosInf == <<"inf", 1>>
NegInf == <<"inf", -1>>
\* the sentinel string 'N/A'
NA == <<"str", 0>>
\* a text cell that is neither a number nor 'N/A', such as 'abc'
Malformed == <<"str", 1>>

IsNum(v) == v[1] = "num"
IsStr(v) == v[1] = "str"

Ok(v) == <<"ok", v>>
Exc(name) == <<"exc", name>>
IsExc(r) == r[1] = "exc"

\* pd.isna(value): true of NaN, false of numbers, infinities and strings
isna(v) == v[1] = "nan"

\* float(value): a string that is no number raises ValueError
PyFloat(v) == IF IsStr(v) THEN Exc("ValueError") ELSE Ok(v)

\* the exceptions the except clauses of the calculators and of the
\* classifier catch
CaughtByCalculators == {"ValueError", "TypeError"}

---------------------------------------------------------------------------
\* The footprint calculators.

\* float(factor) * quantity, for a finite factor
Times(f, q) == Num(f[2] * q)

\* mutant: the power_kwh_year == 0 test of line 391 left out
calculate_carbon_footprint_zero_power(ef_value, power_kwh_year) ==
    IF ef_value = NA \/ isna(ef_value)
    THEN NA
    ELSE LET f == PyFloat(ef_value)
         IN  IF IsExc(f)
             THEN IF f[2] \in CaughtByCalculators THEN NA ELSE f
             ELSE Times(f[2], power_kwh_year)

calculate_carbon_footprint(ef_value, power_kwh_year) ==
    IF ef_value = NA \/ isna(ef_value) \/ power_kwh_year = 0
    THEN NA
    ELSE LET f == PyFloat(ef_value)
         IN  IF IsExc(f)
             THEN IF f[2] \in CaughtByCalculators THEN NA ELSE f
             ELSE Times(f[2], power_kwh_year)

\* mutant: without EWIF the on-site water is returned even when it is 0
calculate_water_footprint_bare_zero(ewif_value, power_kwh_year, water_l_year) ==
    IF ewif_value = NA \/ isna(ewif_value)
    THEN Num(water_l_year)
    ELSE LET f == PyFloat(ewif_value)
         IN  IF IsExc(f)
             THEN IF f[2] \in CaughtByCalculators THEN Num(water_l_year) ELSE f
             ELSE Num(water_l_year + Times(f[2], power_kwh_year)[2])

\* mutant: the try/except of lines 404-409 left out, so that float() of a
\* malformed EWIF raises out of the calculator
calculate_water_footprint_uncaught(ewif_value, power_kwh_year, water_l_year) ==
    IF ewif_value = NA \/ isna(ewif_value)
    THEN IF water_l_year > 0 THEN Num(water_l_year) ELSE NA
    ELSE LET f == PyFloat(ewif_value)
         IN  IF IsExc(f) THEN f
             ELSE Num(water_l_year + Times(f[2], power_kwh_year)[2])

calculate_water_footprint(ewif_value, power_kwh_year, water_l_year) ==
    IF ewif_value = NA \/ isna(ewif_value)
    THEN IF water_l_year > 0 THEN Num(water_l_year) ELSE NA
    ELSE LET f == PyFloat(ewif_value)
         IN  IF IsExc(f)
             THEN IF f[2] \in CaughtByCalculators
                  THEN IF water_l_year > 0 THEN Num(water_l_year) ELSE NA
                  ELSE f
             ELSE LET ewif_contribution == Times(f[2], power_kwh_year)
                  IN  Num(water_l_year + ewif_contribution[2])

\* one term of the water scarcity footprint: factor * quantity, or 0 when
\* the factor is 'N/A', NaN or not a number
Contribution(factor, quantity) ==
    IF factor # NA /\ ~isna(factor)
    THEN LET f == PyFloat(factor)
         IN  IF IsExc(f)
             THEN IF f[2] \in CaughtByCalculators THEN Num(0) ELSE f
             ELSE Times(f[2], quantity)
    ELSE Num(0)

\* mutant: SWI multiplied by the water instead of the power
calculate_water_scarcity_footprint_swi_water(acf_value, swi_value, power_kwh_year, water_l_year) ==
    LET acf_contribution == Contribution(acf_value, water_l_year)
        swi_contribution == Contribution(swi_value, water_l_year)
    IN  IF IsExc(acf_contribution) THEN acf_contribution
        ELSE IF IsExc(swi_contribution) THEN swi_contribution
        ELSE LET total_wsf == acf_contribution[2] + swi_contribution[2]
             IN  IF total_wsf = 0 /\ water_l_year = 0 /\ power_kwh_year = 0
                 THEN NA
                 ELSE Num(total_wsf)

\* mutant: 'N/A' for every zero total, whatever the inputs
calculate_water_scarcity_footprint_zero_total(acf_value, swi_value, power_kwh_year, water_l_year) ==
    LET acf_contribution == Contribution(acf_value, water_l_year)
        swi_contribution == Contribution(swi_value, power_kwh_year)
    IN  IF IsExc(acf_contribution) THEN acf_contribution
        ELSE IF IsExc(swi_contribution) THEN swi_contribution
        ELSE LET total_wsf == acf_contribution[2] + swi_contribution[2]
             IN  IF total_wsf = 0 THEN NA ELSE Num(total_wsf)

calculate_water_scarcity_footprint(acf_value, swi_value, power_kwh_year, water_l_year) ==
    LET acf_contribution == Contribution(acf_value, water_l_year)
        swi_contribution == Contribution(swi_value, power_kwh_year)
    IN  IF IsExc(acf_contribution) THEN acf_contribution
        ELSE IF IsExc(swi_contribution) THEN swi_contribution
        ELSE LET total_wsf == acf_contribution[2] + swi_contribution[2]
             IN  IF total_wsf = 0 /\ water_l_year = 0 /\ power_kwh_year = 0
                 THEN NA
                 ELSE Num(total_wsf)

---------------------------------------------------------------------------
\* The percentile classifier.

\* the values the classifier keeps for the statistic: not 'N/A', not NaN,
\* and accepted by float()
RECURSIVE NumericValues(_)
NumericValues(values) ==
    IF values = <<>> THEN <<>>
    ELSE LET val == Head(values)
             rest == NumericValues(Tail(values))
         IN  IF val # NA /\ ~isna(val)
             THEN LET f == PyFloat(val)
                  IN  IF IsExc(f) THEN rest ELSE <<f[2][2]>> \o rest
             ELSE rest

\* np.percentile(a, q) with the default linear interpolation, for a
\* non-empty list a of numbers: the value at the virtual index
\* (n - 1) * q / 100 of the sorted list. The result is returned in
\* hundredths (100 times the percentile), which keeps it an integer.
\* mutant: the order statistic nearest to the virtual index, no interpolation
percentile_nearest(a, q) ==
    LET s == SortSeq(a, LAMBDA x, y : x < y)
        h == (Len(s) - 1) * q
    IN  IF h % 100 < 50 THEN 100 * s[h \div 100 + 1] ELSE 100 * s[h \div 100 + 2]

percentile(a, q) ==
    LET s == SortSeq(a, LAMBDA x, y : x < y)
        n == Len(s)
        h == (n - 1) * q
        lo == h \div 100
        rem == h % 100
    IN  IF rem = 0
        THEN 100 * s[lo + 1]
        ELSE 100 * s[lo + 1] + (s[lo + 2] - s[lo + 1]) * rem

\* mutant: a value equal to a threshold counted above it
ColorOf_strict(val, p33, p67) ==
    IF val = NA \/ isna(val)
    THEN "gray"
    ELSE LET f == PyFloat(val)
         IN  IF IsExc(f)
             THEN "gray"
             ELSE IF 100 * f[2][2] < p33 THEN "green"
                  ELSE IF 100 * f[2][2] < p67 THEN "yellow"
                  ELSE "red"

\* mutant: the two comparisons of lines 119 and 121 turned round
ColorOf_reversed(val, p33, p67) ==
    IF val = NA \/ isna(val)
    THEN "gray"
    ELSE LET f == PyFloat(val)
         IN  IF IsExc(f)
             THEN "gray"
             ELSE IF 100 * f[2][2] >= p67 THEN "green"
                  ELSE IF 100 * f[2][2] >= p33 THEN "yellow"
                  ELSE "red"

\* the colour of one value, given the two thresholds (in hundredths)
ColorOf(val, p33, p67) ==
    IF val = NA \/ isna(val)
    THEN "gray"
    ELSE LET f == PyFloat(val)
         IN  IF IsExc(f)
             THEN "gray"
             ELSE LET num_val == f[2][2]
                  IN  IF 100 * num_val <= p33 THEN "green"
                      ELSE IF 100 * num_val <= p67 THEN "yellow"
                      ELSE "red"

calculate_percentile_category(values, selected_metric) ==
    LET numeric_values == NumericValues(values)
    IN  IF Len(numeric_values) = 0
        THEN [i \in 1..Len(values) |-> "gray"]
        ELSE LET p33 == percentile(numeric_values, 33)
                 p67 == percentile(numeric_values, 67)
             IN  [i \in 1..Len(values) |-> ColorOf(values[i], p33, p67)]

\* color_map of the table: the numeric code of a colour
color_map(c) ==
    CASE c = "green" -> 0
      [] c = "yellow" -> 1
      [] c = "red" -> 2
      [] c = "gray" -> 3

---------------------------------------------------------------------------
\* The display formatters.
\* Values are integers here, so the branch of format_to_3_sig_figs for a
\* magnitude below 1 is not entered.

Abs(n) == IF n < 0 THEN 0 - n ELSE n

RECURSIVE Pow10(_)
Pow10(k) == IF k = 0 THEN 1 ELSE 10 * Pow10(k - 1)

\* floor(log10(n)) for an integer n >= 1
RECURSIVE FloorLog10(_)
FloorLog10(n) == IF n < 10 THEN 0 ELSE 1 + FloorLog10(n \div 10)

Digit(d) == <<"0", "1", "2", "3", "4", "5", "6", "7", "8", "9">>[d + 1]

\* str(n) for an integer n >= 0
RECURSIVE NatToStr(_)
NatToStr(n) == IF n < 10 THEN Digit(n) ELSE NatToStr(n \div 10) \o Digit(n % 10)

RECURSIVE Zeros(_)
Zeros(k) == IF k = 0 THEN "" ELSE "0" \o Zeros(k - 1)

\* f"{value:.{decimal_places}f}" for an integer value
FixedStr(value, decimal_places) ==
    (IF value < 0 THEN "-" ELSE "") \o NatToStr(Abs(value))
    \o (IF decimal_places > 0 THEN "." \o Zeros(decimal_places) ELSE "")

\* f"{value:.2e}" for an integer value # 0: three significant digits,
\* rounded half to even, and a signed exponent of at least two digits.
\* SciRender prints the digits q (100..999) and the exponent ex.
SciRender(negative, q, ex) ==
    (IF negative THEN "-" ELSE "")
    \o Digit(q \div 100) \o "." \o Digit((q \div 10) % 10) \o Digit(q % 10)
    \o "e+" \o (IF ex < 10 THEN "0" ELSE "") \o NatToStr(ex)

\* a mantissa rounded up to 10.00 is printed as 1.00 with the next exponent
SciCarry(negative, q, e) ==
    IF q = 1000 THEN SciRender(negative, 100, e + 1) ELSE SciRender(negative, q, e)

\* q0 digits kept, r of unit dropped: round half to even
SciRound(negative, q0, r, unit, e) ==
    SciCarry(negative,
             IF 2 * r > unit \/ (2 * r = unit /\ q0 % 2 = 1) THEN q0 + 1 ELSE q0,
             e)

SciScale(negative, a, e) ==
    IF e > 2
    THEN SciRound(negative, a \div Pow10(e - 2), a % Pow10(e - 2), Pow10(e - 2), e)
    ELSE SciCarry(negative, a * Pow10(2 - e), e)

SciStr(value) == SciScale(value < 0, Abs(value), FloorLog10(Abs(value)))

\* the exceptions the except clauses of the formatters catch
CaughtByFormatters == {"ValueError", "TypeError", "OverflowError"}

\* the try block of format_to_3_sig_figs: a string, or the exception raised.
\* math.floor(math.log10(inf)) raises OverflowError.
Sig3Try(value) ==
    LET f == PyFloat(value)
    IN  IF IsExc(f) THEN f
        ELSE LET v == f[2]
             IN  IF v[1] = "inf" THEN Exc("OverflowError")
                 ELSE IF v[1] = "nan" THEN Exc("ValueError")
                 ELSE IF v[2] = 0 THEN Ok("0.00")
                 ELSE LET digits_before_decimal == FloorLog10(Abs(v[2])) + 1
                          decimal_places ==
                              IF 3 - digits_before_decimal > 0
                              THEN 3 - digits_before_decimal ELSE 0
                      IN  Ok(FixedStr(v[2], decimal_places))

format_to_3_sig_figs(value) ==
    IF value = NA \/ isna(value)
    THEN "N/A"
    ELSE LET r == Sig3Try(value)
         IN  IF IsExc(r)
             THEN IF r[2] \in CaughtByFormatters THEN "N/A" ELSE "raised " \o r[2]
             ELSE r[2]

\* the try block shared by the three scientific formatters: f"{value:.2e}"
\* prints an infinity as 'inf' or '-inf' and a NaN as 'nan', without raising
SciTry(value) ==
    LET f == PyFloat(value)
    IN  IF IsExc(f) THEN f
        ELSE LET v == f[2]
             IN  IF v[1] = "inf" THEN Ok(IF v[2] > 0 THEN "inf" ELSE "-inf")
                 ELSE IF v[1] = "nan" THEN Ok("nan")
                 ELSE IF v[2] = 0 THEN Ok("0.00e+00")
                 ELSE Ok(SciStr(v[2]))

format_carbon_footprint_scientific(value) ==
    IF value = NA \/ isna(value)
    THEN "N/A"
    ELSE LET r == SciTry(value)
         IN  IF IsExc(r)
             THEN IF r[2] \in CaughtByFormatters THEN "N/A" ELSE "raised " \o r[2]
             ELSE r[2]

format_water_footprint_scientific(value) ==
    IF value = NA \/ isna(value)
    THEN "N/A"
    ELSE LET r == SciTry(value)
         IN  IF IsExc(r)
             THEN IF r[2] \in CaughtByFormatters THEN "N/A" ELSE "raised " \o r[2]
             ELSE r[2]

format_water_scarcity_footprint_scientific(value) ==
    IF value = NA \/ isna(value)
    THEN "N/A"
    ELSE LET r == SciTry(value)
         IN  IF IsExc(r)
             THEN IF r[2] \in CaughtByFormatters THEN "N/A" ELSE "raised " \o r[2]
             ELSE r[2]

---------------------------------------------------------------------------
\* The county table (lines 353-481) and the statistics (lines 548-570).

\* a text cell of a table, such as a county name
Text(t) == <<"text", t>>

\* str(n).zfill(5) for an integer n >= 0: the 5-character county id
zfill5(n) == Zeros(IF Len(NatToStr(n)) < 5 THEN 5 - Len(NatToStr(n)) ELSE 0) \o NatToStr(n)

\* astype(str).str.zfill(5) of one cell of the fips_raw column. A column
\* that holds a NaN is a float column: its numbers print as '7.0' and its
\* NaN as 'nan'.
FipsOf(fips_raw, float_column) ==
    IF isna(fips_raw) THEN "00nan"
    ELSE IF float_column
         THEN LET t == NatToStr(fips_raw[2]) \o ".0"
              IN  Zeros(IF Len(t) < 5 THEN 5 - Len(t) ELSE 0) \o t
         ELSE zfill5(fips_raw[2])

\* load_emission_data and the fallback of lines 248-250: the rows of
\* inputdata.xlsx, with the fips text column added, less the rows whose
\* fips_raw or EF is missing. A sheet that cannot be read (an empty one
\* cannot be given its five column names) yields the empty table.
load_emission_data(sheet) ==
    LET float_column == \E i \in DOMAIN sheet : isna(sheet[i].fips_raw)
        keep == SelectSeq(sheet, LAMBDA r : ~isna(r.fips_raw) /\ ~isna(r.EF))
    IN  [i \in DOMAIN keep |->
            [fips |-> FipsOf(keep[i].fips_raw, float_column),
             EWIF |-> keep[i].EWIF, EF |-> keep[i].EF,
             ACF |-> keep[i].ACF, SWI |-> keep[i].SWI]]

\* the columns a left join adds to a row of the left table that no row of
\* the right table matches
NoReference == [county_name |-> NaN, state_name |-> NaN, state_abbr |-> NaN]
NoFactors == [EF |-> NaN, EWIF |-> NaN, ACF |-> NaN, SWI |-> NaN]

\* the columns of a row other than its key
Columns(r) == [c \in DOMAIN r \ {"fips"} |-> r[c]]

\* left.merge(right, on='fips', how='left'): the rows of left in order, each
\* joined with every row of right of the same fips, in right's order, or
\* with the missing columns when there is none
RECURSIVE merge(_, _, _)
merge(left, right, missing) ==
    IF left = <<>> THEN <<>>
    ELSE LET l == Head(left)
             matches == SelectSeq(right, LAMBDA r : r.fips = l.fips)
             joined == IF matches = <<>>
                       THEN <<l @@ missing>>
                       ELSE [i \in DOMAIN matches |-> l @@ Columns(matches[i])]
         IN  joined \o merge(Tail(left), right, missing)

\* Series.fillna(default) on one cell
fillna(cell, default) == IF isna(cell) THEN default ELSE cell

\* lines 379-386
FillMissing(r) ==
    [r EXCEPT !.county_name = fillna(@, Text("Unknown County")),
              !.state_name = fillna(@, Text("Unknown State")),
              !.state_abbr = fillna(@, Text("??")),
              !.EF = fillna(@, NA), !.EWIF = fillna(@, NA),
              !.ACF = fillna(@, NA), !.SWI = fillna(@, NA)]

\* lines 454-458: the formatted columns of a row. A footprint whose
\* calculator raised is not formatted: the run has ended.
WithFormatted(r, cf, wf, wsf) ==
    r @@ [carbon_footprint |-> cf,
          water_footprint |-> wf,
          water_scarcity_footprint |-> wsf,
          EF_formatted |-> format_to_3_sig_figs(r.EF),
          carbon_footprint_formatted |->
              IF IsExc(cf) THEN "" ELSE format_carbon_footprint_scientific(cf),
          water_footprint_formatted |->
              IF IsExc(wf) THEN "" ELSE format_water_footprint_scientific(wf),
          water_scarcity_footprint_formatted |->
              IF IsExc(wsf) THEN ""
              ELSE format_water_scarcity_footprint_scientific(wsf)]

\* lines 437-452: the three footprints of a row
WithFootprints(r, power_kwh_year, water_l_year) ==
    WithFormatted(r,
        calculate_carbon_footprint(r.EF, power_kwh_year),
        calculate_water_footprint(r.EWIF, power_kwh_year, water_l_year),
        calculate_water_scarcity_footprint(r.ACF, r.SWI, power_kwh_year, water_l_year))

ImpactMetrics ==
    {"Carbon Footprint", "Scope 1 & 2 Water Footprint", "Water Scarcity Footprint"}

\* lines 460-472
metric_column(metric) ==
    IF metric = "Carbon Footprint" THEN "carbon_footprint"
    ELSE IF metric = "Scope 1 & 2 Water Footprint" THEN "water_footprint"
    ELSE "water_scarcity_footprint"

\* whether a call made while a row was computed raised past its function
RowRaised(r) ==
    \/ IsExc(r.carbon_footprint) \/ IsExc(r.water_footprint)
    \/ IsExc(r.water_scarcity_footprint)
    \/ \E c \in {"EF_formatted", "carbon_footprint_formatted",
                 "water_footprint_formatted", "water_scarcity_footprint_formatted"} :
           r[c] \in {"raised ValueError", "raised TypeError", "raised OverflowError"}

\* lines 548-570: the percentiles of the selected metric, or the warning
StatisticsOf(valid_values, total) ==
    IF Len(valid_values) > 0
    THEN [kind |-> "percentiles",
          p33 |-> percentile(valid_values, 33),
          p67 |-> percentile(valid_values, 67),
          with_data |-> Len(valid_values), total |-> total]
    ELSE [kind |-> "No valid data available",
          p33 |-> 0, p67 |-> 0, with_data |-> 0, total |-> total]

Statistics(rows, metric) ==
    StatisticsOf(NumericValues([i \in DOMAIN rows |-> rows[i][metric_column(metric)]]),
                 Len(rows))

\* lines 354-386: the county ids joined with the reference table, then with
\* the factor table, the missing cells filled
JoinTables(fips_list, reference, factors_table) ==
    LET joined == merge(merge([i \in DOMAIN fips_list |-> [fips |-> fips_list[i]]],
                              reference, NoReference),
                        factors_table, NoFactors)
    IN  [i \in DOMAIN joined |-> FillMissing(joined[i])]

\* lines 437-458 over the rows
ComputeRows(rows, power_kwh_year, water_l_year) ==
    [i \in DOMAIN rows |-> WithFootprints(rows[i], power_kwh_year, water_l_year)]

\* the column of the selected metric
MetricColumn(rows, metric) == [i \in DOMAIN rows |-> rows[i][metric_column(metric)]]

\* lines 479-481
WithColor(r, category) ==
    r @@ [color_category |-> category, color_numeric |-> color_map(category)]

\* lines 474-481
Classified(rows, categories) == [i \in DOMAIN rows |-> WithColor(rows[i], categories[i])]

\* what a run that raised nothing leaves
Completed(rows, metric) ==
    [plot_df |-> rows, statistics |-> Statistics(rows, metric), map_error |-> FALSE]

\* the except clause of line 572 is entered when a call raised: no table
Outcome(rows, metric) ==
    IF \E i \in DOMAIN rows : RowRaised(rows[i])
    THEN [plot_df |-> <<>>, statistics |-> <<>>, map_error |-> TRUE]
    ELSE Completed(Classified(rows, calculate_percentile_category(
                                        MetricColumn(rows, metric), metric)),
                   metric)

\* one run of the script's try block, lines 353-575: the table, the
\* statistics, and whether the except clause was entered
RunScript(fips_list, reference, factors_table, power_kwh_year, water_l_year, metric) ==
    Outcome(ComputeRows(JoinTables(fips_list, reference, factors_table),
                        power_kwh_year, water_l_year),
            metric)

---------------------------------------------------------------------------
\* Parts of the state a specification does not use stay at these column.

CalcIdle == factors = <<>> /\ footprints = <<>>
PctIdle == column = <<>> /\ color_category = <<>> /\ last_change = <<>>
FmtIdle == fmt_value = NA /\ fmt_out = <<>>
TableIdle ==
    /\ all_fips = <<>> /\ data = <<>> /\ emission_data = <<>>
    /\ impact_metric = "" /\ plot_df = <<>> /\ statistics = <<>> /\ map_error = FALSE
InputsIdle == onsite_power_kwh_per_year = 0 /\ onsite_water_l_per_year = 0
\* the widgets as first drawn: both number inputs 0.0, the first unit of
\* each selectbox
WidgetsIdle ==
    /\ onsite_power = Whole(0) /\ power_units = "kWh/yr"
    /\ onsite_water = Whole(0) /\ water_units = "L/yr"

---------------------------------------------------------------------------
\* The calculators applied to one county's row (lines 437-452): the row's
\* factors are fixed, the user changes the on-site power and water.

FactorNames == {"EF", "EWIF", "ACF", "SWI"}
FactorValues == {NA, NaN, Malformed} \cup {Num(n) : n \in 0..MaxFactor}

RowFootprints(f, power_kwh_year, water_l_year) ==
    [carbon_footprint |-> calculate_carbon_footprint(f.EF, power_kwh_year),
     water_footprint |-> calculate_water_footprint(f.EWIF, power_kwh_year, water_l_year),
     water_scarcity_footprint |->
         calculate_water_scarcity_footprint(f.ACF, f.SWI, power_kwh_year, water_l_year)]

InitCalc ==
    /\ factors \in [FactorNames -> FactorValues]
    /\ onsite_power_kwh_per_year = 0
    /\ onsite_water_l_per_year = 0
    /\ footprints = RowFootprints(factors, 0, 0)
    /\ WidgetsIdle /\ PctIdle /\ FmtIdle /\ TableIdle

CalcSetPower(p) ==
    /\ onsite_power_kwh_per_year' = p
    /\ footprints' = RowFootprints(factors, p, onsite_water_l_per_year)
    /\ UNCHANGED <<widgetVars, factors, onsite_water_l_per_year, pctVars, fmtVars, tableVars, runVars>>

CalcSetWater(w) ==
    /\ onsite_water_l_per_year' = w
    /\ footprints' = RowFootprints(factors, onsite_power_kwh_per_year, w)
    /\ UNCHANGED <<widgetVars, factors, onsite_power_kwh_per_year, pctVars, fmtVars, tableVars, runVars>>

NextCalc ==
    \/ \E p \in 0..MaxPower : CalcSetPower(p)
    \/ \E w \in 0..MaxWater : CalcSetWater(w)

SpecCalc == InitCalc /\ [][NextCalc]_vars

---------------------------------------------------------------------------
\* The classifier applied to a metric column (lines 474-477): the column
\* holds 'N/A' or a number per county, as the calculators return them.

MetricValues == {NA} \cup {Num(n) : n \in 0..MaxValue}

MetricColumns == UNION {[1..n -> MetricValues] : n \in 1..MaxColumn}

InitPct ==
    /\ column \in MetricColumns
    /\ color_category = calculate_percentile_category(column, "metric")
    /\ last_change = <<>>
    /\ WidgetsIdle /\ InputsIdle /\ CalcIdle /\ FmtIdle /\ TableIdle

\* county i's value becomes v; the whole column is classified again
PctSetValue(i, v) ==
    /\ column[i] # v
    /\ column' = [column EXCEPT ![i] = v]
    /\ color_category' = calculate_percentile_category(column', "metric")
    /\ last_change' = <<i, column[i], color_category[i]>>
    /\ UNCHANGED <<widgetVars, inputVars, calcVars, fmtVars, tableVars, runVars>>

NextPct == \E i \in DOMAIN column, v \in MetricValues : PctSetValue(i, v)

SpecPct == InitPct /\ [][NextPct]_vars

---------------------------------------------------------------------------
\* The formatters applied to one value (lines 454-458).

FormatInputs ==
    {NA, NaN, Malformed, PosInf, NegInf}
    \cup {Num(n) : n \in (0 - MaxFormatValue)..MaxFormatValue}

FormatColumns ==
    {"EF_formatted", "carbon_footprint_formatted", "water_footprint_formatted",
     "water_scarcity_footprint_formatted"}

InitFmt ==
    /\ fmt_value \in FormatInputs
    /\ fmt_out = [c \in {} |-> ""]
    /\ WidgetsIdle /\ InputsIdle /\ CalcIdle /\ PctIdle /\ TableIdle

FormatterOf(c, value) ==
    CASE c = "EF_formatted" -> format_to_3_sig_figs(value)
      [] c = "carbon_footprint_formatted" -> format_carbon_footprint_scientific(value)
      [] c = "water_footprint_formatted" -> format_water_footprint_scientific(value)
      [] c = "water_scarcity_footprint_formatted" ->
             format_water_scarcity_footprint_scientific(value)

FmtApply(c) ==
    /\ c \notin DOMAIN fmt_out
    /\ fmt_out' = [d \in DOMAIN fmt_out \cup {c} |->
                      IF d = c THEN FormatterOf(c, fmt_value) ELSE fmt_out[d]]
    /\ UNCHANGED <<fmt_value, widgetVars, inputVars, calcVars, pctVars, tableVars, runVars>>

NextFmt == \E c \in FormatColumns : FmtApply(c)

SpecFmt == InitFmt /\ [][NextFmt]_vars

---------------------------------------------------------------------------
\* The script. Streamlit runs it from the top whenever a widget changes; the
\* tables are loaded once and cached. The county ids are those of the
\* GeoJSON; the reference table names every county but the last.

Counties == 1..NumCounties

GeoJsonIds == [c \in Counties |-> zfill5(c)]

ReferenceTable ==
    [c \in 1..(NumCounties - 1) |->
        [fips |-> zfill5(c), county_name |-> Text("County " \o NatToStr(c)),
         state_name |-> Text("State"), state_abbr |-> Text("ST")]]

\* a cell of inputdata.xlsx in the row of county c: empty, or a number
CellValues(c) == {NaN, Num(c)}

\* the rows inputdata.xlsx may hold for county c
SheetRows(c) ==
    [fips_raw : {Num(c)}, EWIF : CellValues(c), EF : CellValues(c),
     ACF : CellValues(c), SWI : CellValues(c)]

\* the sheets with at most one row per county, the rows in county order
RECURSIVE SparseSheets(_)
SparseSheets(n) ==
    IF n = 0 THEN {<<>>}
    ELSE LET shorter == SparseSheets(n - 1)
         IN  shorter \cup {Append(s, r) : s \in shorter, r \in SheetRows(n)}

Rerun(power_kwh_year, water_l_year, metric) ==
    /\ onsite_power_kwh_per_year' = power_kwh_year
    /\ onsite_water_l_per_year' = water_l_year
    /\ impact_metric' = metric
    /\ \E run \in {RunScript(all_fips, data, emission_data,
                               power_kwh_year, water_l_year, metric)} :
           /\ plot_df' = run.plot_df
           /\ statistics' = run.statistics
           /\ map_error' = run.map_error
    /\ UNCHANGED <<widgetVars, tableVars, calcVars, pctVars, fmtVars>>

\* the first run: both number inputs at 0.0, the first metric selected
FirstRun(sheet) ==
    /\ all_fips = GeoJsonIds
    /\ data = ReferenceTable
    /\ emission_data = load_emission_data(sheet)
    /\ onsite_power_kwh_per_year = 0
    /\ onsite_water_l_per_year = 0
    /\ impact_metric = "Carbon Footprint"
    /\ \E run \in {RunScript(all_fips, data, emission_data, 0, 0, impact_metric)} :
           /\ plot_df = run.plot_df
           /\ statistics = run.statistics
           /\ map_error = run.map_error
    /\ WidgetsIdle /\ CalcIdle /\ PctIdle /\ FmtIdle

Init == \E sheet \in SparseSheets(NumCounties) : FirstRun(sheet)

SetPower(p) ==
    /\ p # onsite_power_kwh_per_year
    /\ Rerun(p, onsite_water_l_per_year, impact_metric)

SetWater(w) ==
    /\ w # onsite_water_l_per_year
    /\ Rerun(onsite_power_kwh_per_year, w, impact_metric)

SelectMetric(m) ==
    /\ m # impact_metric
    /\ Rerun(onsite_power_kwh_per_year, onsite_water_l_per_year, m)

Next ==
    \/ \E p \in 0..MaxInput : SetPower(p)
    \/ \E w \in 0..MaxInput : SetWater(w)
    \/ \E m \in ImpactMetrics : SelectMetric(m)

Spec == Init /\ [][Next]_vars

---------------------------------------------------------------------------
\* The script started on other sheets.

\* the sheets of at most MaxSheetRows rows in any order: a county may have
\* several rows, and a row may lack its fips
AnyRows ==
    UNION {SheetRows(c) : c \in Counties}
    \cup [fips_raw : {NaN}, EWIF : CellValues(1), EF : CellValues(1),
          ACF : CellValues(1), SWI : CellValues(1)]

AnySheets == UNION {[1..n -> AnyRows] : n \in 0..MaxSheetRows}

InitAnySheet == \E sheet \in AnySheets : FirstRun(sheet)

SpecAnySheet == InitAnySheet /\ [][Next]_vars

\* the rows of county c with one cell that holds a text instead of a number
MalformedRows(c) ==
    {[r EXCEPT ![f] = Malformed] : r \in SheetRows(c), f \in FactorNames}

\* the row of county c with a number in every cell
FullRow(c) == [fips_raw |-> Num(c), EWIF |-> Num(c), EF |-> Num(c),
               ACF |-> Num(c), SWI |-> Num(c)]

\* the sheets with one malformed cell, in the row of county m; every other
\* county has a full row or none
RECURSIVE OneMalformed(_, _)
OneMalformed(n, m) ==
    IF n = 0 THEN {<<>>}
    ELSE LET shorter == OneMalformed(n - 1, m)
         IN  IF n = m
             THEN {Append(s, r) : s \in shorter, r \in MalformedRows(n)}
             ELSE shorter \cup {Append(s, FullRow(n)) : s \in shorter}

MalformedSheets == UNION {OneMalformed(NumCounties, m) : m \in Counties}

InitMalformed == \E sheet \in MalformedSheets : FirstRun(sheet)

SpecMalformed == InitMalformed /\ [][Next]_vars

---------------------------------------------------------------------------
\* The converters applied to the widgets (lines 276-330): the user types an
\* amount or selects a unit, and the script converts both inputs again.

\* the tags of the two selectboxes
PowerUnits == {"kWh/yr", "kWh/mo", "kW", "MW"}
WaterUnits == {"L/yr", "L/mo", "L/s", "gpm", "gal/mo"}

\* the tags handed to a converter: its own, and one of the other converter
PowerTags == PowerUnits \cup {"gpm"}
WaterTags == WaterUnits \cup {"kW"}

\* the amounts typed: the power in steps of a half, the water in steps of 1
PowerAmounts == {Fraction(k, 2) : k \in 0..(2 * MaxPowerAmount)}
WaterAmounts == {Whole(k) : k \in 0..MaxWaterAmount}

Converted(power, p_units, water, w_units) ==
    /\ onsite_power' = power /\ power_units' = p_units
    /\ onsite_water' = water /\ water_units' = w_units
    /\ onsite_power_kwh_per_year' = convert_to_kwh_per_year(power, p_units)
    /\ onsite_water_l_per_year' = convert_to_liters_per_year(water, w_units)
    /\ UNCHANGED <<calcVars, pctVars, fmtVars, tableVars, runVars>>

InitConv ==
    /\ WidgetsIdle
    /\ onsite_power_kwh_per_year = convert_to_kwh_per_year(onsite_power, power_units)
    /\ onsite_water_l_per_year = convert_to_liters_per_year(onsite_water, water_units)
    /\ CalcIdle /\ PctIdle /\ FmtIdle /\ TableIdle

EnterPower(p) == Converted(p, power_units, onsite_water, water_units)

SelectPowerUnits(u) == Converted(onsite_power, u, onsite_water, water_units)

EnterWater(w) == Converted(onsite_power, power_units, w, water_units)

SelectWaterUnits(u) == Converted(onsite_power, power_units, onsite_water, u)

NextConv ==
    \/ \E p \in PowerAmounts : EnterPower(p)
    \/ \E u \in PowerTags : SelectPowerUnits(u)
    \/ \E w \in WaterAmounts : EnterWater(w)
    \/ \E u \in WaterTags : SelectWaterUnits(u)

SpecConv == InitConv /\ [][NextConv]_vars

---------------------------------------------------------------------------
\* Properties of the calculators, under SpecCalc.

\* a factor the data does not give: the 'N/A' of a filled column or a NaN
Unavailable(f) == f = NA \/ f = NaN

\* the term a factor contributes to the water scarcity footprint
Term(f, quantity) == IF IsNum(f) THEN f[2] * quantity ELSE 0

\* C2: the carbon footprint is 'N/A' whenever the power is 0 or EF is
\* unavailable, and EF * power for a numeric EF and a positive power.
C2_CarbonFootprint ==
    /\ (onsite_power_kwh_per_year = 0 \/ Unavailable(factors.EF))
           => footprints.carbon_footprint = NA
    /\ (IsNum(factors.EF) /\ onsite_power_kwh_per_year > 0)
           => footprints.carbon_footprint
                  = Num(factors.EF[2] * onsite_power_kwh_per_year)

\* C2 witness: EF is the number 0, the power is positive, the footprint is
\* the number 0.
C2_Witness ==
    /\ factors.EF = Num(0)
    /\ onsite_power_kwh_per_year > 0
    /\ footprints.carbon_footprint = Num(0)

\* C3 as stated: outside the case where both factors are unavailable or zero
\* and both inputs are 0, the water scarcity footprint is the sum of the
\* two terms.
C3_AsStated ==
    ~ ( /\ Unavailable(factors.ACF) \/ factors.ACF = Malformed \/ factors.ACF = Num(0)
        /\ Unavailable(factors.SWI) \/ factors.SWI = Malformed \/ factors.SWI = Num(0)
        /\ onsite_power_kwh_per_year = 0
        /\ onsite_water_l_per_year = 0 )
    => footprints.water_scarcity_footprint
           = Num(Term(factors.ACF, onsite_water_l_per_year)
                 + Term(factors.SWI, onsite_power_kwh_per_year))

\* C3 amended: the water scarcity footprint is 'N/A' exactly when both
\* inputs are 0, whatever ACF and SWI are, and the sum of the two terms
\* otherwise.
C3_ScarcityFootprint ==
    footprints.water_scarcity_footprint
        = IF onsite_power_kwh_per_year = 0 /\ onsite_water_l_per_year = 0
          THEN NA
          ELSE Num(Term(factors.ACF, onsite_water_l_per_year)
                   + Term(factors.SWI, onsite_power_kwh_per_year))

\* C3 witness: ACF is a nonzero number, both inputs are 0, the footprint is
\* 'N/A'.
C3_Witness ==
    /\ IsNum(factors.ACF) /\ factors.ACF[2] > 0
    /\ onsite_power_kwh_per_year = 0
    /\ onsite_water_l_per_year = 0
    /\ footprints.water_scarcity_footprint = NA

\* C5: with a numeric EWIF the water footprint is water + EWIF * power; with
\* EWIF unavailable it is the on-site water when that is positive and 'N/A'
\* otherwise.
C5_WaterFootprint ==
    /\ IsNum(factors.EWIF)
           => footprints.water_footprint
                  = Num(onsite_water_l_per_year
                        + factors.EWIF[2] * onsite_power_kwh_per_year)
    /\ Unavailable(factors.EWIF)
           => footprints.water_footprint
                  = IF onsite_water_l_per_year > 0
                    THEN Num(onsite_water_l_per_year) ELSE NA

\* C5 witness: EWIF is unavailable, the water is 0, the power is positive,
\* and the footprint is 'N/A', not the number 0.
C5_Witness ==
    /\ Unavailable(factors.EWIF)
    /\ onsite_water_l_per_year = 0
    /\ onsite_power_kwh_per_year > 0
    /\ footprints.water_footprint = NA

---------------------------------------------------------------------------
\* Properties of the classifier, under SpecPct.

\* the numbers of a column, in its order
NumbersOf(col) ==
    LET kept == SelectSeq(col, IsNum)
    IN  [i \in DOMAIN kept |-> kept[i][2]]

\* the k-th smallest of the numbers nums, by counting
OrderStatistic(nums, k) ==
    CHOOSE v \in {nums[i] : i \in DOMAIN nums} :
        /\ Cardinality({i \in DOMAIN nums : nums[i] < v}) < k
        /\ Cardinality({i \in DOMAIN nums : nums[i] <= v}) >= k

\* 100 times the q-th percentile of nums by linear interpolation between the
\* two order statistics around the rank 1 + (n - 1) * q / 100
LinearPercentile(nums, q) ==
    LET n == Len(nums)
        lo == ((n - 1) * q) \div 100
        rem == ((n - 1) * q) % 100
    IN  (100 - rem) * OrderStatistic(nums, lo + 1)
        + rem * OrderStatistic(nums, IF lo + 2 > n THEN n ELSE lo + 2)

\* the tier the rule gives a value of a column
TierOf(v, col) ==
    IF v = NA THEN "gray"
    ELSE IF 100 * v[2] <= LinearPercentile(NumbersOf(col), 33) THEN "green"
    ELSE IF 100 * v[2] <= LinearPercentile(NumbersOf(col), 67) THEN "yellow"
    ELSE "red"

\* C6: in a column with at least one number every county gets the tier of
\* the rule: gray iff its value is 'N/A', else green, yellow or red by the
\* 33rd and 67th linear-interpolation percentiles of the numbers; the
\* colours come in the order and number of the values.
C6_Classification ==
    (\E i \in DOMAIN column : IsNum(column[i]))
    => /\ DOMAIN color_category = DOMAIN column
       /\ \A i \in DOMAIN column : color_category[i] = TierOf(column[i], column)

\* C6 witness: a classified column that holds an 'N/A' (gray) and a county
\* of each of the three tiers.
C6_Witness ==
    /\ \E i \in DOMAIN column : column[i] = NA /\ color_category[i] = "gray"
    /\ \A c \in {"green", "yellow", "red"} :
           \E i \in DOMAIN column : IsNum(column[i]) /\ color_category[i] = c

\* C7: after the value of one county was raised, the others unchanged and
\* the column classified again, the county's tier is not lower than before
\* (green < yellow < red).
C7_Monotonic ==
    ( /\ last_change # <<>>
      /\ IsNum(last_change[2])
      /\ IsNum(column[last_change[1]])
      /\ column[last_change[1]][2] > last_change[2][2] )
    => color_map(color_category[last_change[1]]) >= color_map(last_change[3])

\* C7 witness: a county whose value was raised and that moved from the
\* lowest tier to the highest.
C7_Witness ==
    /\ last_change # <<>>
    /\ IsNum(last_change[2])
    /\ IsNum(column[last_change[1]])
    /\ column[last_change[1]][2] > last_change[2][2]
    /\ last_change[3] = "green"
    /\ color_category[last_change[1]] = "red"
    /\ Len(column) > 2

---------------------------------------------------------------------------
\* Properties of the table.

\* the rows of the table with county id f
RowsOf(f) == {i \in DOMAIN plot_df : plot_df[i].fips = f}

\* the values of the selected metric, one per row
SelectedValues == [i \in DOMAIN plot_df |-> plot_df[i][metric_column(impact_metric)]]

\* C4: whenever the power or the water is not 0, the water scarcity
\* footprint of every row is a number, whatever ACF and SWI are, and under
\* the Water Scarcity Footprint metric no row is gray (code 3).
C4_ScarcityNeverNoData ==
    (onsite_power_kwh_per_year # 0 \/ onsite_water_l_per_year # 0)
    => /\ ~map_error
       /\ \A f \in {all_fips[i] : i \in DOMAIN all_fips} : RowsOf(f) # {}
       /\ \A i \in DOMAIN plot_df :
              /\ IsNum(plot_df[i].water_scarcity_footprint)
              /\ impact_metric = "Water Scarcity Footprint"
                     => /\ plot_df[i].color_category # "gray"
                        /\ plot_df[i].color_numeric # 3

\* C4 witness: an input is not 0, the metric is the Water Scarcity
\* Footprint, and a county with neither ACF nor SWI has the footprint 0 and
\* a colour other than gray.
C4_Witness ==
    /\ onsite_power_kwh_per_year # 0 \/ onsite_water_l_per_year # 0
    /\ impact_metric = "Water Scarcity Footprint"
    /\ \E i \in DOMAIN plot_df :
           /\ plot_df[i].ACF = NA /\ plot_df[i].SWI = NA
           /\ plot_df[i].water_scarcity_footprint = Num(0)
           /\ plot_df[i].color_category = "green"
    /\ \E i \in DOMAIN plot_df : plot_df[i].color_category = "red"

\* C1: every county id of the GeoJSON is in exactly one row of the table.
C1_EveryCountyOnce ==
    /\ ~map_error
    /\ \A f \in {all_fips[i] : i \in DOMAIN all_fips} : Cardinality(RowsOf(f)) = 1

\* C8: when no row has a number for the selected metric, the run raises
\* nothing, every row is gray with code 3, the statistics report no data,
\* and the table holds one row per county.
C8_EmptyMetricDomain ==
    (\A i \in DOMAIN plot_df : ~IsNum(SelectedValues[i]))
    => /\ ~map_error
       /\ \A i \in DOMAIN plot_df :
              plot_df[i].color_category = "gray" /\ plot_df[i].color_numeric = 3
       /\ statistics.kind = "No valid data available"
       /\ \A f \in {all_fips[i] : i \in DOMAIN all_fips} : Cardinality(RowsOf(f)) = 1

\* the loaded factor table with every malformed cell made a missing one
Sanitized(table) ==
    [i \in DOMAIN table |->
        [c \in DOMAIN table[i] |->
            IF c \in FactorNames /\ table[i][c] = Malformed
            THEN NaN ELSE table[i][c]]]

\* the table the run would leave with the malformed factor unavailable
SanitizedRun ==
    RunScript(all_fips, data, Sanitized(emission_data),
              onsite_power_kwh_per_year, onsite_water_l_per_year, impact_metric)

\* the footprints and the category of a row
Derived(r) ==
    <<r.fips, r.carbon_footprint, r.water_footprint, r.water_scarcity_footprint,
      r.color_category, r.color_numeric>>

\* C9: with one malformed factor in the sheet the run raises nothing, every
\* county has a row, and the footprints and categories of all rows are those
\* of the run in which that factor is unavailable.
C9_MalformedIsLocal ==
    /\ ~map_error
    /\ \A f \in {all_fips[i] : i \in DOMAIN all_fips} : RowsOf(f) # {}
    /\ ~SanitizedRun.map_error
    /\ DOMAIN plot_df = DOMAIN SanitizedRun.plot_df
    /\ \A i \in DOMAIN plot_df : Derived(plot_df[i]) = Derived(SanitizedRun.plot_df[i])

\* C9 witness: the row of one county holds a malformed EWIF and its water
\* footprint is the on-site water, while another county has a water
\* footprint computed from its own EWIF and both rows have a colour.
C9_Witness ==
    /\ impact_metric = "Scope 1 & 2 Water Footprint"
    /\ onsite_power_kwh_per_year > 0 /\ onsite_water_l_per_year > 0
    /\ \E i, j \in DOMAIN plot_df :
           /\ plot_df[i].EWIF = Malformed
           /\ plot_df[i].water_footprint = Num(onsite_water_l_per_year)
           /\ IsNum(plot_df[j].EWIF) /\ plot_df[j].EWIF[2] > 0
           /\ plot_df[j].water_footprint
                  = Num(onsite_water_l_per_year
                        + plot_df[j].EWIF[2] * onsite_power_kwh_per_year)
           /\ plot_df[i].color_category = "green"
           /\ plot_df[j].color_category = "red"

---------------------------------------------------------------------------
\* Properties of the formatters, under SpecFmt.

\* C10: every formatter returns "N/A" for a value that is unavailable,
\* malformed or not finite, and "0.00" (three significant figures) or
\* "0.00e+00" (scientific) for the value 0.
C10_FormatDegrades ==
    \A c \in DOMAIN fmt_out :
        /\ fmt_value \in {NA, NaN, Malformed, PosInf, NegInf} => fmt_out[c] = "N/A"
        /\ fmt_value = Num(0)
               => fmt_out[c] = IF c = "EF_formatted" THEN "0.00" ELSE "0.00e+00"

---------------------------------------------------------------------------
\* Properties of the unit converters, under SpecConv.

\* the factor the contract gives for a power unit: kWh/year per unit
PowerScale(u) ==
    CASE u = "kWh/yr" -> Whole(1)
      [] u = "kWh/mo" -> Whole(12)
      [] u = "kW" -> Whole(8760)
      [] u = "MW" -> Whole(8760000)
      [] OTHER -> Whole(0)

\* the factor the contract gives for a water unit: L/year per unit;
\* 525600 x 3.78541 = 1989611.496 and 12 x 3.78541 = 45.42492
WaterScale(u) ==
    CASE u = "L/yr" -> Whole(1)
      [] u = "L/mo" -> Whole(12)
      [] u = "L/s" -> Whole(31557600)
      [] u = "gpm" -> Fraction(1989611496, 1000)
      [] u = "gal/mo" -> Fraction(4542492, 100000)
      [] OTHER -> Whole(0)

\* amount x scale, multiplied out and then brought to lowest terms
Scaled(amount, scale) == Fraction(amount[1] * scale[1], amount[2] * scale[2])

\* C11: each converter returns the amount times the factor of its unit
\* (1, 12, 8760, 1000 x 8760 for the power; 1, 12, 31557600,
\* 525600 x 3.78541, 12 x 3.78541 for the water), and 0 for a tag that is
\* not one of its units.
C11_Multiplicative ==
    /\ onsite_power_kwh_per_year = Scaled(onsite_power, PowerScale(power_units))
    /\ onsite_water_l_per_year = Scaled(onsite_water, WaterScale(water_units))
    /\ power_units \notin PowerUnits => onsite_power_kwh_per_year = Whole(0)
    /\ water_units \notin WaterUnits => onsite_water_l_per_year = Whole(0)

\* C11 witness: 1 gpm has become 1989611.496 L/year (248701437/125) while
\* 1.5 under a tag that is not a power unit has become 0.
C11_Witness ==
    /\ onsite_water = Whole(1) /\ water_units = "gpm"
    /\ onsite_water_l_per_year = <<248701437, 125>>
    /\ onsite_power = <<3, 2>> /\ power_units = "gpm"
    /\ onsite_power_kwh_per_year = Whole(0)

\* C12 as stated: 12 kWh/mo converts to what 1 kWh/yr converts to, times 12.
C12_AsStated ==
    (onsite_power = Whole(12) /\ power_units = "kWh/mo")
    => onsite_power_kwh_per_year
           = Mul(convert_to_kwh_per_year(Whole(1), "kWh/yr"), Whole(12))

\* the fraction 1/x of a fraction x > 0
Inverse(x) == <<x[2], x[1]>>

\* C12: an amount in kWh/mo converts to 12 times what the same amount in
\* kWh/yr converts to, and for every power unit the converted amount
\* divided by the factor of the unit is the amount again.
C12_RoundTrip ==
    /\ power_units = "kWh/mo"
           => onsite_power_kwh_per_year
                  = Mul(convert_to_kwh_per_year(onsite_power, "kWh/yr"), Whole(12))
    /\ power_units \in PowerUnits
           => Mul(onsite_power_kwh_per_year, Inverse(PowerScale(power_units)))
                  = onsite_power

\* C12 witness: 12 kWh/mo has become 144 kWh/year, which is not the 12 that
\* 1 kWh/yr times 12 gives.
C12_Witness ==
    /\ onsite_power = Whole(12) /\ power_units = "kWh/mo"
    /\ onsite_power_kwh_per_year = Whole(144)
    /\ Mul(convert_to_kwh_per_year(Whole(1), "kWh/yr"), Whole(12)) = Whole(12)

---------------------------------------------------------------------------
\* The table when the selected metric has one value only.

\* the numbers in the column of the selected metric
SelectedNumbers ==
    NumbersOf([i \in 1..Len(plot_df) |-> plot_df[i][metric_column(impact_metric)]])

\* C13: when all numbers of the selected metric are the same number, the
\* 33rd and the 67th percentile are that number, every row with a number
\* is green, and no row is yellow or red.
C13_SingleValue ==
    (/\ Len(SelectedNumbers) > 0
     /\ \A i \in DOMAIN SelectedNumbers : SelectedNumbers[i] = SelectedNumbers[1])
    => /\ statistics.kind = "percentiles"
       /\ statistics.p33 = 100 * SelectedNumbers[1]
       /\ statistics.p67 = 100 * SelectedNumbers[1]
       /\ \A i \in DOMAIN plot_df :
              /\ IsNum(plot_df[i][metric_column(impact_metric)])
                     => plot_df[i].color_category = "green"
              /\ plot_df[i].color_category \in {"green", "gray"}
              /\ plot_df[i].color_numeric \in {0, 3}

\* C13 witness: Water Footprint with power 0 and water > 0; a county with
\* an EWIF and one without both have the on-site water as footprint, every
\* county has data, and all are green.
C13_Witness ==
    /\ impact_metric = "Scope 1 & 2 Water Footprint"
    /\ onsite_power_kwh_per_year = 0 /\ onsite_water_l_per_year > 0
    /\ \E i, j \in DOMAIN plot_df :
           /\ IsNum(plot_df[i].EWIF) /\ plot_df[i].EWIF[2] > 0
           /\ plot_df[j].EWIF = NA
    /\ \A i \in DOMAIN plot_df :
           /\ plot_df[i].water_footprint = Num(onsite_water_l_per_year)
           /\ plot_df[i].color_category = "green"
    /\ statistics.p33 = 100 * onsite_water_l_per_year
    /\ statistics.p67 = statistics.p33

====
